---- MODULE Spec2Model ----
(***************************************************************************)
(* Model of the Dance Analyzer service (src/main.py): the /process and     *)
(* /health handlers, DanceSkeletonProcessor.process_video (the frame loop) *)
(* and DanceSkeletonProcessor.draw_skeleton.                               *)
(*                                                                         *)
(* Each /process request is a job j with its own program counter pc[j].    *)
(* The two served directories are maps from a path to the job whose data   *)
(* the file at that path holds (NoFile when there is no such file).        *)
(* Visibilities and normalised coordinates are counted in tenths, so the   *)
(* 0.5 threshold of draw_skeleton is 5.                                    *)
(***************************************************************************)
EXTENDS Integers, Sequences, FiniteSets, TLC

\* ---------------------------------------------------------------- bounds
NumJobs == 2          \* request slots of the service
MaxFrames == 2        \* longest source video, in frames
NumLandmarks == 3     \* landmarks of the reduced pose topology
NumPrefixes == 2      \* distinct values of the first 8 characters of a UUID
NumTails == 2         \* distinct values of the rest of a UUID

\* ------------------------------------------------------- program constants
VisibilityThreshold == 5   \* 0.5, in tenths

Jobs == 1..NumJobs
NoFile == {}
NoContentType == <<"none", "none">>
\* content types as <<type, subtype>>, i.e. "type/subtype"; NoContentType is
\* an upload part that declares none (file.content_type is None)
ContentTypes == {<<"video", "mp4">>, <<"image", "png">>, NoContentType}
Suffixes == {".mp4", ".mov"}
UUIDs == (1..NumPrefixes) \X (1..NumTails)
VideoIds == 1..NumPrefixes
TempPaths == VideoIds \X Suffixes
FrameShape == <<10, 20, 3>>   \* (height, width, channels) of the source frames
Visibilities == {0, 4, 5, 6}

VARIABLES
    HAS_MEDIAPIPE,    \* module flag set by the import at process start
    health,           \* last /health response, "none" before the first call
    pc,               \* per job: position in the /process handler
    content_type,     \* per job: file.content_type
    suffix,           \* per job: Path(file.filename).suffix
    uuid,             \* per job: the value uuid.uuid4() returned
    video_id,         \* per job: str(uuid)[:8]
    uploads,          \* UPLOAD_DIR: temp path -> owner of the file there
    processed,        \* PROCESSED_DIR: video id -> owner of the file there
    processor,        \* per job: the DanceSkeletonProcessor ("none", "ready", "closed")
    cap,              \* per job: the VideoCapture ("none", "failed", "opened", "released")
    out,              \* per job: the VideoWriter ("none", "opened", "released")
    frame,            \* per job: index of the frame in hand (0: none)
    keypoints,        \* per job: detector result for the frame in hand
    skeleton_frame,   \* per job: the right half of the composite
    frame_count,      \* per job
    processed_frames, \* per job
    detected,         \* per job: the detector results so far, one per frame
    written,          \* per job: the frames handed to out.write, in order
    info,             \* per job: the dict process_video returned
    error,            \* per job: the exception in flight ("none" when none)
    response,         \* per job: the HTTP response
    rk,               \* renderer harness: keypoints given to draw_skeleton
    rc                \* renderer harness: the canvas it returned

jobVars == <<pc, content_type, suffix, uuid, video_id, processor, cap, out,
             frame, keypoints, skeleton_frame, frame_count, processed_frames,
             detected, written, info, error, response>>
vars == <<HAS_MEDIAPIPE, health, uploads, processed, jobVars, rk, rc>>

\* ------------------------------------------------------------- renderer
Landmark(i, v) == [x |-> i + 1, y |-> i + 2, visibility |-> v]

\* the skeleton edge set, as 0-based landmark index pairs (a chain closed
\* into a ring), in the order the loop visits it
POSE_CONNECTIONS ==
    [n \in 1..NumLandmarks |-> <<n - 1, n % NumLandmarks>>]

\* keypoints[idx] of a Python list
At(kps, idx) == kps[idx + 1]

\* int(v * size) for v given in tenths
ToPixel(v, size) == (v * size) \div 10

Zeros(shape) == [shape |-> shape, ops |-> <<>>]

VisibleMutant(lm) == lm.visibility >= VisibilityThreshold
Visible(lm) == lm.visibility > VisibilityThreshold

Point(lm, w, h) == <<ToPixel(lm.x, w), ToPixel(lm.y, h)>>

RECURSIVE DrawConnections(_, _, _, _, _)
DrawConnections(canvas, kps, n, w, h) ==
    IF n > Len(POSE_CONNECTIONS) THEN canvas
    ELSE LET start_idx == POSE_CONNECTIONS[n][1]
             end_idx == POSE_CONNECTIONS[n][2]
             drawn ==
                 IF Visible(At(kps, start_idx)) /\ Visible(At(kps, end_idx))
                 THEN [canvas EXCEPT !.ops = Append(@,
                          [op |-> "line",
                           from |-> Point(At(kps, start_idx), w, h),
                           to |-> Point(At(kps, end_idx), w, h),
                           color |-> "green"])]
                 ELSE canvas
         IN DrawConnections(drawn, kps, n + 1, w, h)

RECURSIVE DrawKeypoints(_, _, _, _, _)
DrawKeypoints(canvas, kps, n, w, h) ==
    IF n > Len(kps) THEN canvas
    ELSE LET lm == kps[n]
             drawn ==
                 IF Visible(lm)
                 THEN [canvas EXCEPT !.ops = Append(@,
                          [op |-> "circle", from |-> Point(lm, w, h),
                           to |-> Point(lm, w, h), color |-> "red"])]
                 ELSE canvas
         IN DrawKeypoints(drawn, kps, n + 1, w, h)

draw_skeleton(frame_shape, kps) ==
    LET h == frame_shape[1]
        w == frame_shape[2]
    IN DrawKeypoints(DrawConnections(Zeros(frame_shape), kps, 1, w, h),
                     kps, 1, w, h)

Poses ==
    { [n \in 1..NumLandmarks |-> Landmark(n - 1, v[n])] :
          v \in [1..NumLandmarks -> Visibilities] }

\* the detector results the service model draws from: no pose, or a pose
\* whose first landmark sits exactly on the threshold
SamplePose ==
    [n \in 1..NumLandmarks |->
        Landmark(n - 1, IF n = 1 THEN VisibilityThreshold ELSE VisibilityThreshold + 1)]
DetectorOutputs == {<<>>, SamplePose}

\* ------------------------------------------------------------- sentinels
NoCanvas == [shape |-> <<>>, ops |-> <<>>]
NoInfo == [frames |-> -1, processed_frames |-> -1, width |-> -1, height |-> -1]
NoResponse == [status |-> 0, detail |-> "none", cause |-> "none"]
NoHealth == [status |-> "none", mediapipe_available |-> FALSE]
NoUUID == <<0, 0>>
NoCapture == [state |-> "none", pos |-> 0]

\* ---------------------------------------------------------------- helpers
IsVideoTypeMutant(ct) == ct # NoContentType
\* file.content_type.startswith('video/')
IsVideoType(ct) == ct[1] = "video"

\* str(uuid.uuid4())[:8]
First8(u) == u[1]

temp_path(j) == <<video_id[j], suffix[j]>>
output_path(j) == video_id[j]

\* Path.unlink(missing_ok=True): the entry is gone afterwards, whoever made it
Unlink(dir, path) == [dir EXCEPT ![path] = NoFile]
\* open(path, "wb") and cv2.VideoWriter(path, ...): create or replace the file
Create(dir, path, j) == [dir EXCEPT ![path] = {j}]

NextProcessedMutant(n, kps) == n + 1
\* "if keypoints: ... processed_frames += 1"
NextProcessed(n, kps) == IF kps # <<>> THEN n + 1 ELSE n

Combined(f, skeleton) == [left |-> f, right |-> skeleton]

SinkWriteMutant(w, combined) ==
    IF combined.right.ops = <<>> THEN w ELSE Append(w, combined)
\* out.write(combined_frame)
SinkWrite(w, combined) == Append(w, combined)

Fail(j, cause, where) ==
    /\ error' = [error EXCEPT ![j] = cause]
    /\ pc' = [pc EXCEPT ![j] = where]

\* ------------------------------------------------------------------ Init
InitJobs(active) ==
    /\ pc = [j \in Jobs |-> IF j \in active THEN "start" ELSE "idle"]
    /\ content_type = [j \in Jobs |-> NoContentType]
    /\ suffix = [j \in Jobs |-> "none"]
    /\ uuid = [j \in Jobs |-> NoUUID]
    /\ video_id = [j \in Jobs |-> 0]
    /\ processor = [j \in Jobs |-> "none"]
    /\ cap = [j \in Jobs |-> NoCapture]
    /\ out = [j \in Jobs |-> "none"]
    /\ frame = [j \in Jobs |-> 0]
    /\ keypoints = [j \in Jobs |-> <<>>]
    /\ skeleton_frame = [j \in Jobs |-> NoCanvas]
    /\ frame_count = [j \in Jobs |-> 0]
    /\ processed_frames = [j \in Jobs |-> 0]
    /\ detected = [j \in Jobs |-> <<>>]
    /\ written = [j \in Jobs |-> <<>>]
    /\ info = [j \in Jobs |-> NoInfo]
    /\ error = [j \in Jobs |-> "none"]
    /\ response = [j \in Jobs |-> NoResponse]
    /\ uploads = [p \in TempPaths |-> NoFile]
    /\ processed = [p \in VideoIds |-> NoFile]
    /\ health = NoHealth

Init ==
    /\ HAS_MEDIAPIPE \in BOOLEAN
    /\ InitJobs({1})
    /\ rk = <<>>
    /\ rc = NoCanvas

\* ------------------------------------------------- POST /process: upload
handlerLocals == <<processor, cap, out, frame, keypoints, skeleton_frame,
                   frame_count, processed_frames, detected, written, info>>
loopLocals == <<frame, keypoints, skeleton_frame, frame_count,
                processed_frames, detected, written>>
service == <<HAS_MEDIAPIPE, health, rk, rc>>
request == <<content_type, suffix, uuid, video_id>>

Respond(j, status, detail, cause) ==
    /\ response' = [response EXCEPT ![j] =
                       [status |-> status, detail |-> detail, cause |-> cause]]
    /\ pc' = [pc EXCEPT ![j] = "done"]

\* file.content_type is None: .startswith raises outside every try block
RejectNoContentType(j) ==
    /\ pc[j] = "start"
    /\ content_type' = [content_type EXCEPT ![j] = NoContentType]
    /\ Respond(j, 500, "Internal Server Error", "AttributeError")
    /\ UNCHANGED <<service, uploads, processed, suffix, uuid, video_id,
                   handlerLocals, error>>

RejectNotVideo(j) ==
    /\ pc[j] = "start"
    /\ \E ct \in ContentTypes \ {NoContentType} :
          /\ ~IsVideoType(ct)
          /\ content_type' = [content_type EXCEPT ![j] = ct]
    /\ Respond(j, 400, "File must be a video", "none")
    /\ UNCHANGED <<service, uploads, processed, suffix, uuid, video_id,
                   handlerLocals, error>>

\* the content type passes; video_id and the two file names are fixed
AcceptUpload(j) ==
    /\ pc[j] = "start"
    /\ \E ct \in ContentTypes \ {NoContentType}, sfx \in Suffixes,
          u \in UUIDs \ {uuid[k] : k \in Jobs} :
          /\ IsVideoType(ct)
          /\ content_type' = [content_type EXCEPT ![j] = ct]
          /\ suffix' = [suffix EXCEPT ![j] = sfx]
          /\ uuid' = [uuid EXCEPT ![j] = u]
          /\ video_id' = [video_id EXCEPT ![j] = First8(u)]
    /\ pc' = [pc EXCEPT ![j] = "save"]
    /\ UNCHANGED <<service, uploads, processed, handlerLocals, error, response>>

\* temp_path.open("wb") raises: no file was created
SaveOpenFails(j) ==
    /\ pc[j] = "save"
    /\ Respond(j, 500, "Failed to save file", "OSError")
    /\ UNCHANGED <<service, uploads, processed, request, handlerLocals, error>>

\* the file was created, then shutil.copyfileobj raises
SaveCopyFails(j) ==
    /\ pc[j] = "save"
    /\ uploads' = Create(uploads, temp_path(j), j)
    /\ Respond(j, 500, "Failed to save file", "OSError")
    /\ UNCHANGED <<service, processed, request, handlerLocals, error>>

SaveUpload(j) ==
    /\ pc[j] = "save"
    /\ uploads' = Create(uploads, temp_path(j), j)
    /\ pc' = [pc EXCEPT ![j] = "construct"]
    /\ UNCHANGED <<service, processed, request, handlerLocals, error, response>>

\* ------------------------------------- DanceSkeletonProcessor.__init__
\* mp is None: mp.solutions raises AttributeError
ConstructWithoutMediapipe(j) ==
    /\ pc[j] = "construct"
    /\ ~HAS_MEDIAPIPE
    /\ Fail(j, "AttributeError", "except")
    /\ UNCHANGED <<service, uploads, processed, request, handlerLocals, response>>

\* Pose(...) raises: self._pose is never set
ConstructFails(j) ==
    /\ pc[j] = "construct"
    /\ HAS_MEDIAPIPE
    /\ Fail(j, "PoseInitError", "except")
    /\ UNCHANGED <<service, uploads, processed, request, handlerLocals, response>>

Construct(j) ==
    /\ pc[j] = "construct"
    /\ HAS_MEDIAPIPE
    /\ processor' = [processor EXCEPT ![j] = "ready"]
    /\ pc' = [pc EXCEPT ![j] = "open"]
    /\ UNCHANGED <<service, uploads, processed, request, cap, out, loopLocals,
                   info, error, response>>

\* ------------------------------ DanceSkeletonProcessor.process_video
OpenSourceFailsMutant(j) ==
    /\ pc[j] = "open"
    /\ cap' = [cap EXCEPT ![j] = [state |-> "failed", pos |-> 0]]
    /\ out' = [out EXCEPT ![j] = "opened"]
    /\ processed' = Create(processed, output_path(j), j)
    /\ Fail(j, "ValueError", "except")
    /\ UNCHANGED <<service, uploads, request, processor, loopLocals, info, response>>

\* cap.isOpened() is false (no file at input_path, or one that does not
\* decode): ValueError before the writer exists
OpenSourceFails(j) ==
    /\ pc[j] = "open"
    /\ cap' = [cap EXCEPT ![j] = [state |-> "failed", pos |-> 0]]
    /\ Fail(j, "ValueError", "except")
    /\ UNCHANGED <<service, uploads, processed, request, processor, out,
                   loopLocals, info, response>>

OpenSource(j) ==
    /\ pc[j] = "open"
    /\ uploads[temp_path(j)] # NoFile
    /\ cap' = [cap EXCEPT ![j] = [state |-> "opened", pos |-> 0]]
    /\ pc' = [pc EXCEPT ![j] = "sink"]
    /\ UNCHANGED <<service, uploads, processed, request, processor, out,
                   loopLocals, info, error, response>>

\* cv2.VideoWriter(output_path, ...); frame_count = 0; processed_frames = 0
OpenSink(j) ==
    /\ pc[j] = "sink"
    /\ out' = [out EXCEPT ![j] = "opened"]
    /\ processed' = Create(processed, output_path(j), j)
    /\ frame_count' = [frame_count EXCEPT ![j] = 0]
    /\ processed_frames' = [processed_frames EXCEPT ![j] = 0]
    /\ pc' = [pc EXCEPT ![j] = "read"]
    /\ UNCHANGED <<service, uploads, request, processor, cap, frame, keypoints,
                   skeleton_frame, detected, written, info, error, response>>

\* ret, frame = cap.read() with ret true
ReadFrame(j) ==
    /\ pc[j] = "read"
    /\ cap[j].pos < MaxFrames
    /\ cap' = [cap EXCEPT ![j].pos = @ + 1]
    /\ frame' = [frame EXCEPT ![j] = cap[j].pos + 1]
    /\ pc' = [pc EXCEPT ![j] = "detect"]
    /\ UNCHANGED <<service, uploads, processed, request, processor, out,
                   keypoints, skeleton_frame, frame_count, processed_frames,
                   detected, written, info, error, response>>

\* ret false: break
ReadEnd(j) ==
    /\ pc[j] = "read"
    /\ pc' = [pc EXCEPT ![j] = "release"]
    /\ UNCHANGED <<service, uploads, processed, request, handlerLocals, error,
                   response>>

\* keypoints = self._mediapipe_detector(frame)
Detect(j) ==
    /\ pc[j] = "detect"
    /\ \E kps \in DetectorOutputs :
          /\ keypoints' = [keypoints EXCEPT ![j] = kps]
          /\ detected' = [detected EXCEPT ![j] = Append(@, kps)]
    /\ pc' = [pc EXCEPT ![j] = "render"]
    /\ UNCHANGED <<service, uploads, processed, request, processor, cap, out,
                   frame, skeleton_frame, frame_count, processed_frames,
                   written, info, error, response>>

DetectFails(j) ==
    /\ pc[j] = "detect"
    /\ Fail(j, "DetectorError", "except")
    /\ UNCHANGED <<service, uploads, processed, request, handlerLocals, response>>

\* the if/else on keypoints: draw_skeleton and the counter, or a black frame
Render(j) ==
    /\ pc[j] = "render"
    /\ skeleton_frame' = [skeleton_frame EXCEPT ![j] =
          IF keypoints[j] # <<>> THEN draw_skeleton(FrameShape, keypoints[j])
                                 ELSE Zeros(FrameShape)]
    /\ processed_frames' = [processed_frames EXCEPT ![j] =
                               NextProcessed(@, keypoints[j])]
    /\ pc' = [pc EXCEPT ![j] = "write"]
    /\ UNCHANGED <<service, uploads, processed, request, processor, cap, out,
                   frame, keypoints, frame_count, detected, written, info,
                   error, response>>

RenderFails(j) ==
    /\ pc[j] = "render"
    /\ Fail(j, "RenderError", "except")
    /\ UNCHANGED <<service, uploads, processed, request, handlerLocals, response>>

\* np.hstack, the two cv2.putText labels, out.write(combined_frame)
ComposeAndWrite(j) ==
    /\ pc[j] = "write"
    /\ written' = [written EXCEPT ![j] =
                      SinkWrite(@, Combined(frame[j], skeleton_frame[j]))]
    /\ pc' = [pc EXCEPT ![j] = "count"]
    /\ UNCHANGED <<service, uploads, processed, request, processor, cap, out,
                   frame, keypoints, skeleton_frame, frame_count,
                   processed_frames, detected, info, error, response>>

\* np.hstack or cv2.putText raises
ComposeFails(j) ==
    /\ pc[j] = "write"
    /\ Fail(j, "ComposeError", "except")
    /\ UNCHANGED <<service, uploads, processed, request, handlerLocals, response>>

\* out.write raises
WriteFails(j) ==
    /\ pc[j] = "write"
    /\ Fail(j, "WriteError", "except")
    /\ UNCHANGED <<service, uploads, processed, request, handlerLocals, response>>

\* frame_count += 1
CountFrame(j) ==
    /\ pc[j] = "count"
    /\ frame_count' = [frame_count EXCEPT ![j] = @ + 1]
    /\ pc' = [pc EXCEPT ![j] = "read"]
    /\ UNCHANGED <<service, uploads, processed, request, processor, cap, out,
                   frame, keypoints, skeleton_frame, processed_frames,
                   detected, written, info, error, response>>

\* cap.release(); out.release(); return {...}
ReleaseAndReturn(j) ==
    /\ pc[j] = "release"
    /\ cap' = [cap EXCEPT ![j].state = "released"]
    /\ out' = [out EXCEPT ![j] = "released"]
    /\ info' = [info EXCEPT ![j] =
                   [frames |-> frame_count[j],
                    processed_frames |-> processed_frames[j],
                    width |-> FrameShape[2] * 2,
                    height |-> FrameShape[1]]]
    /\ pc' = [pc EXCEPT ![j] = "finally"]
    /\ UNCHANGED <<service, uploads, processed, request, processor, loopLocals,
                   error, response>>

\* ------------------------------------ POST /process: except and finally
\* except Exception: temp_path.unlink(missing_ok=True)
ExceptUnlinkTemp(j) ==
    /\ pc[j] = "except"
    /\ uploads' = Unlink(uploads, temp_path(j))
    /\ pc' = [pc EXCEPT ![j] = "except_output"]
    /\ UNCHANGED <<service, processed, request, handlerLocals, error, response>>

ExceptUnlinkOutputMutant(j) ==
    /\ pc[j] = "except_output"
    /\ pc' = [pc EXCEPT ![j] = "finally"]
    /\ UNCHANGED <<service, uploads, processed, request, handlerLocals, error,
                   response>>

\* output_path.unlink(missing_ok=True); the raise waits for the finally block
ExceptUnlinkOutput(j) ==
    /\ pc[j] = "except_output"
    /\ processed' = Unlink(processed, output_path(j))
    /\ pc' = [pc EXCEPT ![j] = "finally"]
    /\ UNCHANGED <<service, uploads, request, handlerLocals, error, response>>

\* finally: temp_path.unlink(missing_ok=True); then the return or the raise
Finally(j) ==
    /\ pc[j] = "finally"
    /\ uploads' = Unlink(uploads, temp_path(j))
    /\ IF error[j] = "none"
       THEN Respond(j, 200, "ok", "none")
       ELSE Respond(j, 500, "Processing failed", error[j])
    /\ UNCHANGED <<service, processed, request, handlerLocals, error>>

\* the request is over and its objects are collected: __del__ closes the
\* pose model, and the capture and writer the pipeline left open are
\* released by their own finalizers
Finalize(j) ==
    /\ pc[j] = "done"
    /\ processor[j] = "ready"
    /\ processor' = [processor EXCEPT ![j] = "closed"]
    /\ cap' = [cap EXCEPT ![j].state = IF @ = "opened" THEN "released" ELSE @]
    /\ out' = [out EXCEPT ![j] = IF @ = "opened" THEN "released" ELSE @]
    /\ pc' = [pc EXCEPT ![j] = "collected"]
    /\ UNCHANGED <<service, uploads, processed, request, loopLocals, info,
                   error, response>>

\* ---------------------------------------------------------- GET /health
HealthCheck ==
    /\ health = NoHealth
    /\ health' = [status |-> "healthy", mediapipe_available |-> HAS_MEDIAPIPE]
    /\ UNCHANGED <<HAS_MEDIAPIPE, rk, rc, uploads, processed, jobVars>>

\* ------------------------------------------------------ specifications
\* one step of the /process request j
JobStep(j) ==
    \/ RejectNoContentType(j)
    \/ RejectNotVideo(j)
    \/ AcceptUpload(j)
    \/ SaveOpenFails(j)
    \/ SaveCopyFails(j)
    \/ SaveUpload(j)
    \/ ConstructWithoutMediapipe(j)
    \/ ConstructFails(j)
    \/ Construct(j)
    \/ OpenSourceFails(j)
    \/ OpenSource(j)
    \/ OpenSink(j)
    \/ ReadFrame(j)
    \/ ReadEnd(j)
    \/ Detect(j)
    \/ DetectFails(j)
    \/ Render(j)
    \/ RenderFails(j)
    \/ ComposeAndWrite(j)
    \/ ComposeFails(j)
    \/ WriteFails(j)
    \/ CountFrame(j)
    \/ ReleaseAndReturn(j)
    \/ ExceptUnlinkTemp(j)
    \/ ExceptUnlinkOutput(j)
    \/ Finally(j)
    \/ Finalize(j)

Next ==
    \/ HealthCheck
    \/ \E j \in Jobs : JobStep(j)

\* the service handling one /process request, with /health called at any time
Spec == Init /\ [][Next]_vars

\* the service handling NumJobs /process requests at once, their steps
\* interleaved (one worker per request)
InitConcurrent ==
    /\ HAS_MEDIAPIPE \in BOOLEAN
    /\ InitJobs(Jobs)
    /\ rk = <<>>
    /\ rc = NoCanvas

NextConcurrent == \E j \in Jobs : JobStep(j)

SpecConcurrent == InitConcurrent /\ [][NextConcurrent]_vars

\* ------------------------------------------------------ renderer harness
InitRender ==
    /\ HAS_MEDIAPIPE = TRUE
    /\ InitJobs({})
    /\ rk \in Poses
    /\ rc = NoCanvas

RenderCall ==
    /\ rc = NoCanvas
    /\ rc' = draw_skeleton(FrameShape, rk)
    /\ UNCHANGED <<HAS_MEDIAPIPE, health, rk, uploads, processed, jobVars>>

RenderReturn ==
    /\ rc # NoCanvas
    /\ rk' \in Poses
    /\ rc' = NoCanvas
    /\ UNCHANGED <<HAS_MEDIAPIPE, health, uploads, processed, jobVars>>

NextRender == RenderCall \/ RenderReturn

SpecRender == InitRender /\ [][NextRender]_vars

\* --------------------------------------------------------------- claims
Ended(j) == pc[j] \in {"done", "collected"}
InPipeline(j) == pc[j] \in {"sink", "read", "detect", "render", "write", "count", "release"}
PassedContentType(j) == video_id[j] # 0
LoopErrors == {"DetectorError", "RenderError", "ComposeError", "WriteError"}
OwnsTemp(j) == PassedContentType(j) /\ j \in uploads[temp_path(j)]
OwnsOutput(j) == PassedContentType(j) /\ j \in processed[output_path(j)]

\* C1: once a /process request that passed the content-type check has
\* ended, its temporary input file no longer exists, on every exit path
\* (including a failure while the upload is being saved).
C1_TempInputAlwaysDeleted ==
    \A j \in Jobs : (Ended(j) /\ PassedContentType(j)) => ~OwnsTemp(j)

\* C2: whenever process_video has opened the source (and the sink), both
\* handles are released before control leaves the call, by normal return or
\* by an exception raised in the frame loop.
C2_HandlesReleasedOnEveryExit ==
    \A j \in Jobs :
        ~InPipeline(j) => (cap[j].state # "opened" /\ out[j] # "opened")

\* C3: when a stage fails after the sink was opened at output_path, the
\* handler has deleted the output file before it returns the server error,
\* and after the request neither the temp input nor the partial output of
\* that request remains on disk.
C3_FailedJobLeavesNoFiles ==
    \A j \in Jobs :
        (error[j] # "none" /\ out[j] # "none") =>
            /\ pc[j] \in {"finally", "done", "collected"} => ~OwnsOutput(j)
            /\ Ended(j) => /\ response[j].status = 500
                           /\ ~OwnsTemp(j)
                           /\ ~OwnsOutput(j)

C3_Witness ==
    \E j \in Jobs :
        /\ pc[j] = "done"
        /\ error[j] \in LoopErrors
        /\ out[j] = "opened"
        /\ written[j] # <<>>
        /\ response[j].status = 500

\* C4: when the pose detector failed to load, /health reports
\* mediapipe_available false, and a /process call fails immediately with the
\* dependency-unavailable error: nothing of the upload is written, the
\* source is never opened or read, and the request ends with that error.
C4_FailFastWithoutDetector ==
    ~HAS_MEDIAPIPE =>
        /\ health # NoHealth => ~health.mediapipe_available
        /\ \A j \in Jobs :
              /\ ~OwnsTemp(j)
              /\ cap[j].state = "none"
              /\ frame[j] = 0
              /\ (Ended(j) /\ PassedContentType(j)) =>
                     /\ response[j].status = 500
                     /\ response[j].cause = "AttributeError"

\* C5: an upload whose declared content type is not a video type is
\* rejected with a client error before any processing: no temp file, no
\* detector, no video source, no output file.
C5_NonVideoRejectedBeforeProcessing ==
    \A j \in Jobs :
        (content_type[j] # NoContentType /\ content_type[j][1] # "video") =>
            /\ pc[j] = "done"
            /\ response[j].status = 400
            /\ response[j].detail = "File must be a video"
            /\ video_id[j] = 0
            /\ \A p \in TempPaths : j \notin uploads[p]
            /\ \A p \in VideoIds : j \notin processed[p]
            /\ processor[j] = "none"
            /\ cap[j].state = "none"
            /\ out[j] = "none"

C5_Witness ==
    \E j \in Jobs :
        /\ pc[j] = "done"
        /\ content_type[j] = <<"image", "png">>
        /\ response[j].status = 400

\* C6: if the source video cannot be opened, the pipeline raises the open
\* error before the sink is opened: no sink file is created, no frame is
\* read, and no partial output is on disk after the request.
C6_OpenFailureCreatesNoSink ==
    \A j \in Jobs :
        error[j] = "ValueError" =>
            /\ cap[j].state = "failed"
            /\ out[j] = "none"
            /\ ~OwnsOutput(j)
            /\ cap[j].pos = 0
            /\ frame[j] = 0
            /\ written[j] = <<>>
            /\ Ended(j) => /\ response[j].status = 500
                           /\ response[j].cause = "ValueError"

C6_Witness ==
    \E j \in Jobs :
        /\ pc[j] = "done"
        /\ error[j] = "ValueError"
        /\ processor[j] = "ready"
        /\ response[j].status = 500

\* C7 as stated: at every point of the frame loop
\* processed_frame_count <= frame_count.
C7_ProcessedNeverExceedsFrameCount ==
    \A j \in Jobs : processed_frames[j] <= frame_count[j]

\* C7 as amended: processed_frame_count <= frame_count holds from the top
\* of each iteration until the frame's detection is counted and in the
\* returned result, and processed_frame_count <= frame_count + 1 holds in
\* between; in the returned result the two are equal exactly when the
\* detector returned a non-empty keypoint set for every frame read.
C7_ProcessedAtMostFrameCountAtLoopHead ==
    \A j \in Jobs :
        /\ processed_frames[j] <= frame_count[j] + 1
        /\ pc[j] \in {"read", "detect", "render", "release"} =>
               processed_frames[j] <= frame_count[j]
        /\ info[j] # NoInfo =>
               /\ info[j].frames = Len(detected[j])
               /\ info[j].processed_frames <= info[j].frames
               /\ info[j].processed_frames = info[j].frames
                      <=> \A n \in 1..Len(detected[j]) : detected[j][n] # <<>>

C7_Witness ==
    \E j \in Jobs :
        /\ info[j] # NoInfo
        /\ info[j].frames = 2
        /\ info[j].processed_frames = 1

\* C8: the Nth frame handed to the sink is the composite of the Nth frame
\* read from the source, whether or not the detector found keypoints on it,
\* with no reordering, duplication or drop; at most the frame in hand is
\* not written yet, and on normal completion the number of frames written
\* equals frame_count.
C8_FramesWrittenInOrder ==
    \A j \in Jobs :
        /\ \A n \in 1..Len(written[j]) :
              /\ written[j][n].left = n
              /\ written[j][n].right =
                     IF detected[j][n] # <<>>
                     THEN draw_skeleton(FrameShape, detected[j][n])
                     ELSE Zeros(FrameShape)
        /\ Len(written[j]) <= cap[j].pos
        /\ cap[j].pos <= Len(written[j]) + 1
        /\ pc[j] \in {"count", "read", "release"} => Len(written[j]) = cap[j].pos
        /\ info[j] # NoInfo =>
               /\ Len(written[j]) = info[j].frames
               /\ cap[j].pos = info[j].frames

C8_Witness ==
    \E j \in Jobs :
        /\ info[j] # NoInfo
        /\ Len(written[j]) = 2
        /\ written[j][1].right.ops = <<>>
        /\ written[j][2].right.ops # <<>>

\* C9: on the canvas draw_skeleton returns, a keypoint with visibility
\* <= 0.5 (0.5 included) has no joint marker and no edge touching it, every
\* edge drawn joins two keypoints of visibility > 0.5, and the canvas is
\* all-black when no keypoint passes the visibility check.
C9_HiddenKeypointsNotDrawn ==
    rc # NoCanvas =>
        LET pt(i) == Point(rk[i], FrameShape[2], FrameShape[1])
            ops == {rc.ops[n] : n \in 1..Len(rc.ops)}
        IN /\ \A i \in 1..Len(rk) :
                 rk[i].visibility <= 5 =>
                     \A o \in ops : o.from # pt(i) /\ o.to # pt(i)
           /\ \A o \in ops :
                 o.op = "line" =>
                     \E a, b \in 1..Len(rk) :
                         /\ o.from = pt(a) /\ o.to = pt(b)
                         /\ rk[a].visibility > 5 /\ rk[b].visibility > 5
           /\ (\A i \in 1..Len(rk) : rk[i].visibility <= 5) => rc.ops = <<>>

C9_Witness ==
    /\ rc # NoCanvas
    /\ rc.ops # <<>>
    /\ \E i, k \in 1..Len(rk) :
          /\ rk[i].visibility = 5
          /\ rk[k].visibility > 5
          /\ <<i - 1, k - 1>> \in {POSE_CONNECTIONS[n] : n \in 1..Len(POSE_CONNECTIONS)}

\* C10: any two /process requests in flight at the same time have distinct
\* temp input paths and distinct output paths.
C10_PathsCollisionFree ==
    \A a, b \in Jobs :
        (a # b /\ PassedContentType(a) /\ PassedContentType(b)
              /\ ~Ended(a) /\ ~Ended(b)) =>
            /\ temp_path(a) # temp_path(b)
            /\ output_path(a) # output_path(b)

====
